---- MODULE Spec2Model ----
(***************************************************************************)
(* Model of pyscf/tdscf/uks.py, class TDDFTNoHybrid: the linear-response   *)
(* operator built by get_vind (closure vind) and the driver kernel with    *)
(* its eigenpair reconstruction.                                           *)
(*                                                                         *)
(* Numbers.  numpy works on IEEE doubles.  The model works on exact        *)
(* extended rationals n/d (d >= 0): d = 0 with n = 1 or -1 is +inf/-inf    *)
(* and 0/0 is NaN, with the IEEE rules for inf and NaN that the code can   *)
(* run into (sqrt of a negative number, division by zero, inf - inf,       *)
(* inf * 0, comparisons with NaN are false).  Rounding and the sign of     *)
(* zero are not modelled.  Orbital energies and reduced eigenvalues are    *)
(* drawn from sets whose square roots are rational; the final factor       *)
(* 1/sqrt(norm) is kept as an exact surd c * sqrt(r).                      *)
(***************************************************************************)
EXTENDS Integers, Sequences, FiniteSets, TLC

VARIABLES
    mf,      \* the mean-field object self._scf (externally owned)
    td,      \* the solver object: nstates, converged, e, xy, wfnsym
    chk,     \* the checkpoint store, keys tddft/e and tddft/xy
    op,      \* the closure returned by the latest get_vind (captured values)
    buf,     \* the trial-vector batch held by the caller of vind
    tr,      \* what the latest invocation of vind computed
    last     \* what the latest call of kernel was given and how it ended

vars == <<mf, td, chk, op, buf, tr, last>>

----------------------------------------------------------------------------
(* Bounds of the model *)

\* orbitals per spin channel (nmo = nao)
NMO == 2
\* eigenpairs the diagonalization primitive returns at most
MaxRoots == 2
\* trial vectors per invocation of vind
MaxBatch == 1

----------------------------------------------------------------------------
(* Extended rational arithmetic *)

Abs(i) == IF i < 0 THEN -i ELSE i

Sgn(i) == IF i < 0 THEN -1 ELSE IF i > 0 THEN 1 ELSE 0

RECURSIVE GCD(_, _)
GCD(a, b) == IF b = 0 THEN a ELSE GCD(b, a % b)

\* canonical form of n/d, d >= 0
Q(n, d) ==
    IF d = 0 THEN [n |-> Sgn(n), d |-> 0]
    ELSE IF n = 0 THEN [n |-> 0, d |-> 1]
    ELSE LET g == GCD(Abs(n), Abs(d))
         IN  [n |-> Sgn(d) * (n \div g), d |-> Abs(d) \div g]

I(i) == Q(i, 1)
NaN == [n |-> 0, d |-> 0]
Inf == [n |-> 1, d |-> 0]
IsNaN(a) == a.d = 0 /\ a.n = 0
IsInf(a) == a.d = 0 /\ a.n # 0
IsFin(a) == a.d > 0

RMul(a, b) == Q(a.n * b.n, a.d * b.d)

RNeg(a) == [n |-> -a.n, d |-> a.d]

RAdd(a, b) ==
    IF IsNaN(a) \/ IsNaN(b) THEN NaN
    ELSE IF IsInf(a) /\ IsInf(b) THEN (IF a.n = b.n THEN a ELSE NaN)
    ELSE IF IsInf(a) THEN a
    ELSE IF IsInf(b) THEN b
    ELSE Q(a.n * b.d + b.n * a.d, a.d * b.d)

RSub(a, b) == RAdd(a, RNeg(b))

\* a / b; x/0 is +-inf, 0/0 and inf/inf are NaN
RDiv(a, b) ==
    IF IsNaN(a) \/ IsNaN(b) THEN NaN
    ELSE IF b.n < 0 THEN Q(-(a.n * b.d), a.d * (-b.n))
    ELSE Q(a.n * b.d, a.d * b.n)

\* a > 0 as numpy decides it: false for NaN
RGtZero(a) == ~IsNaN(a) /\ a.n > 0

\* a < 0 as numpy decides it: false for NaN
RLtZero(a) == ~IsNaN(a) /\ a.n < 0

IsSquare(i) == \E k \in 0..i : k * k = i

ISqrt(i) == CHOOSE k \in 0..i : k * k = i

\* numpy.sqrt on values whose root is rational; NaN for negative arguments
RSqrt(a) ==
    IF IsNaN(a) \/ a.n < 0 THEN NaN
    ELSE IF IsInf(a) THEN Inf
    ELSE Q(ISqrt(a.n), ISqrt(a.d))

\* a surd c * sqrt(r), r a positive rational (r = 1 for a rational number)
Surd(c, r) == [c |-> c, r |-> r]

\* 1/numpy.sqrt(a) for a finite a > 0, exact
InvSqrt(a) ==
    IF IsSquare(a.n) /\ IsSquare(a.d)
    THEN Surd(RDiv(I(1), RSqrt(a)), I(1))
    ELSE Surd(I(1), RDiv(I(1), a))

\* rational times surd
SMul(x, s) == Surd(RMul(x, s.c), s.r)

\* the square of a surd, a rational
SSq(s) == RMul(RMul(s.c, s.c), s.r)

----------------------------------------------------------------------------
(* Vectors and matrices: sequences, and sequences of rows *)

RECURSIVE SumSeq(_)
SumSeq(s) == IF s = <<>> THEN I(0) ELSE RAdd(Head(s), SumSeq(Tail(s)))

VMul(a, b) == [k \in 1..Len(a) |-> RMul(a[k], b[k])]

VAdd(a, b) == [k \in 1..Len(a) |-> RAdd(a[k], b[k])]

VSub(a, b) == [k \in 1..Len(a) |-> RSub(a[k], b[k])]

VScale(c, a) == [k \in 1..Len(a) |-> RMul(c, a[k])]

\* lib.norm(x)**2
Norm2(a) == SumSeq(VMul(a, a))

\* v[lo+1 .. lo+n] reshaped to nr rows of nc columns (C order)
Reshape(v, lo, nr, nc) ==
    [r \in 1..nr |-> [c \in 1..nc |-> v[lo + (r - 1) * nc + c]]]

\* the element of a one-element set (used to evaluate a value once)
Only(S) == CHOOSE x \in S : TRUE

RECURSIVE Flatten(_)
Flatten(m) == IF m = <<>> THEN <<>> ELSE Head(m) \o Flatten(Tail(m))

----------------------------------------------------------------------------
(* Excitation space builder: numpy.where(mo_occ > 0)[0] and (mo_occ == 0)  *)
(* Orbital indices are 1-based here (0-based in the code).                 *)

\* numpy.where(mo_occ > 0)[0], from orbital p on
RECURSIVE OccFrom(_, _)
OccFrom(occ, p) ==
    IF p > Len(occ) THEN <<>>
    ELSE IF occ[p] > 0 THEN <<p>> \o OccFrom(occ, p + 1)
    ELSE OccFrom(occ, p + 1)

\* numpy.where(mo_occ == 0)[0], from orbital p on
RECURSIVE VirFrom(_, _)
VirFrom(occ, p) ==
    IF p > Len(occ) THEN <<>>
    ELSE IF occ[p] = 0 THEN <<p>> \o VirFrom(occ, p + 1)
    ELSE VirFrom(occ, p + 1)

OccIdx(occ) == OccFrom(occ, 1)

VirIdx(occ) == VirFrom(occ, 1)

\* mo_energy[viridx].reshape(-1,1) - mo_energy[occidx], flattened
GapVec(en, vir, occ) ==
    Flatten([a \in 1..Len(vir) |->
               [i \in 1..Len(occ) |-> I(en[vir[a]] - en[occ[i]])]])

\* a ^ b of two non-negative integers (numpy bitwise exclusive or)
RECURSIVE BitXor(_, _)
BitXor(a, b) ==
    IF a = 0 THEN b
    ELSE IF b = 0 THEN a
    ELSE (((a % 2) + (b % 2)) % 2) + (2 * BitXor(a \div 2, b \div 2))

\* (orbsym[viridx].reshape(-1,1) ^ orbsym[occidx]) != wfnsym, flattened
ForbidVec(sym, vir, occ, wfnsym) ==
    Flatten([a \in 1..Len(vir) |->
               [i \in 1..Len(occ) |->
                   BitXor(sym[vir[a]], sym[occ[i]]) # wfnsym]])

\* mo_coeff[:, idx]: columns idx of the coefficient matrix
Columns(C, idx) == [p \in 1..Len(C) |-> [k \in 1..Len(idx) |-> C[p][idx[k]]]]

\* wfnsym is not None and mol.symmetry
MaskActive(tdv, mfv) == tdv.wfnsym.set /\ mfv.symmetry

----------------------------------------------------------------------------
(* get_vind: the values the closure vind captures, and hdiag *)

NoOp == [built |-> FALSE]

\* lines 48-85: everything is computed from the arguments
VindClosure(tdv, mfv) ==
    LET occa == OccIdx(mfv.mo_occ[1])
        occb == OccIdx(mfv.mo_occ[2])
        vira == VirIdx(mfv.mo_occ[1])
        virb == VirIdx(mfv.mo_occ[2])
        masked == MaskActive(tdv, mfv)
        forbid ==
            IF masked
            THEN ForbidVec(mfv.orbsym[1], vira, occa, tdv.wfnsym.val)
                 \o ForbidVec(mfv.orbsym[2], virb, occb, tdv.wfnsym.val)
            ELSE <<>>
        raw == GapVec(mfv.mo_energy[1], vira, occa)
               \o GapVec(mfv.mo_energy[2], virb, occb)
        e_ai == [k \in 1..Len(raw) |->
                    IF masked /\ forbid[k] THEN I(0) ELSE raw[k]]
        dai == [k \in 1..Len(e_ai) |-> RSqrt(e_ai[k])]
    IN  [built |-> TRUE,
         masked |-> masked,
         mo_coeff |-> mfv.mo_coeff,
         nmo |-> Len(mfv.mo_coeff[1][1]),
         nao |-> Len(mfv.mo_coeff[1]),
         occidx |-> <<occa, occb>>,
         viridx |-> <<vira, virb>>,
         nocc |-> <<Len(occa), Len(occb)>>,
         nvir |-> <<Len(vira), Len(virb)>>,
         orbo |-> <<Columns(mfv.mo_coeff[1], occa), Columns(mfv.mo_coeff[2], occb)>>,
         orbv |-> <<Columns(mfv.mo_coeff[1], vira), Columns(mfv.mo_coeff[2], virb)>>,
         sym_forbid |-> forbid,
         e_ai |-> e_ai,
         dai |-> dai,
         edai |-> VMul(e_ai, dai),
         hdiag |-> VMul(e_ai, e_ai)]

\* a call of get_vind ignoring the mean field when a closure exists already
GetVindCached(tdv, mfv) == IF op.built THEN op ELSE VindClosure(tdv, mfv)

\* get_vind(mf): a new closure on every call, nothing is kept on self
GetVind(tdv, mfv) == VindClosure(tdv, mfv)

----------------------------------------------------------------------------
(* External collaborators of the operator *)

\* _gen_uhf_response(mf, mo_coeff, mo_occ, hermi=1): a pure, linear map from
\* the two spin densities to the two response potentials; here the kernel
\* that returns the spin-summed density for either spin
Vresp(dma, dmb, nao) ==
    LET v == [p \in 1..nao |-> [q \in 1..nao |-> RAdd(dma[p][q], dmb[p][q])]]
    IN  <<v, v>>

\* _ao2mo.nr_e2(v, C, (i0, i1, j0, j1)): the block of C^T v C with rows the
\* orbitals i0 <= i < i1 and columns the orbitals j0 <= j < j1 (0-based),
\* flattened row by row
NrE2(v, C, i0, i1, j0, j1) ==
    LET nao == Len(C)
    IN  Flatten([i \in 1..(i1 - i0) |->
                   [j \in 1..(j1 - j0) |->
                       SumSeq(Flatten([p \in 1..nao |->
                           [q \in 1..nao |->
                               RMul(I(C[p][i0 + i] * C[q][j0 + j]), v[p][q])]]))]])

----------------------------------------------------------------------------
(* The closure vind, one trial vector at a time *)

\* a vind that trusts the solver to stay in the allowed subspace
MaskTrialTrusting(opv, z) == z

\* zs = numpy.copy(zs); zs[:,sym_forbid] = 0: the vector vind works on
MaskTrial(opv, z) ==
    IF opv.masked
    THEN [k \in 1..Len(z) |-> IF opv.sym_forbid[k] THEN I(0) ELSE z[k]]
    ELSE z

\* dm = orbv . z . orbo^T ; dm + dm.T
TransDensity(orbv, zmat, orbo, nao, nvir, nocc) ==
    LET dm == [p \in 1..nao |-> [q \in 1..nao |->
                  SumSeq(Flatten([a \in 1..nvir |-> [i \in 1..nocc |->
                      RMul(I(orbv[p][a] * orbo[q][i]), zmat[a][i])]]))]]
    IN  [p \in 1..nao |-> [q \in 1..nao |-> RAdd(dm[p][q], dm[q][p])]]

\* the orbital window handed to nr_e2 for one spin: (nocc, nmo, 0, nocc)
BackWindow(opv, s) == <<opv.nocc[s], opv.nmo, 0, opv.nocc[s]>>

\* the (virtual, occupied) orbital pair behind position k of a spin block of
\* the trial vector, as the transition density uses it
DensityPairs(opv, s) ==
    Flatten([a \in 1..opv.nvir[s] |->
               [i \in 1..opv.nocc[s] |-> <<opv.viridx[s][a], opv.occidx[s][i]>>]])

\* the (row, column) orbital pair behind position k of a spin block of the
\* back-transformed potential
BackPairs(opv, s) ==
    LET w == BackWindow(opv, s)
    IN  Flatten([i \in 1..(w[2] - w[1]) |->
                   [j \in 1..(w[4] - w[3]) |-> <<w[1] + i, w[3] + j>>]])

\* steps 5 to 7 for one trial vector: back-transform, add edai * z, scale
VindBack(opv, zm, z, v1ao) ==
    LET wa == BackWindow(opv, 1)
        wb == BackWindow(opv, 2)
        v1a == NrE2(v1ao[1], opv.mo_coeff[1], wa[1], wa[2], wa[3], wa[4])
        v1b == NrE2(v1ao[2], opv.mo_coeff[2], wb[1], wb[2], wb[3], wb[4])
    IN  Only({ [zin |-> zm, z |-> z, diag |-> diag,
                hx |-> VMul(VAdd(v1a \o v1b, diag), opv.dai)]
               : diag \in {VMul(opv.edai, zm)} })

\* steps 2 to 4 for one trial vector: the two transition densities and the
\* response potentials
VindResponse(opv, zm, z) ==
    LET na == opv.nocc[1] * opv.nvir[1]
        za == Reshape(z, 0, opv.nvir[1], opv.nocc[1])
        zb == Reshape(z, na, opv.nvir[2], opv.nocc[2])
    IN  Only({ Only({ VindBack(opv, zm, z, v1ao)
                      : v1ao \in {Vresp(dma, dmb, opv.nao)} })
               : dma \in {TransDensity(opv.orbv[1], za, opv.orbo[1], opv.nao,
                                        opv.nvir[1], opv.nocc[1])},
                 dmb \in {TransDensity(opv.orbv[2], zb, opv.orbo[2], opv.nao,
                                        opv.nvir[2], opv.nocc[2])} })

\* the loop bodies of vind for one trial vector z0 of the batch
VindOne(opv, z0) ==
    Only({ Only({ VindResponse(opv, zm, z) : z \in {VMul(opv.dai, zm)} })
           : zm \in {MaskTrial(opv, z0)} })

\* a vind that zeroes the forbidden positions in the caller's array
CallerBatchInPlace(opv, zs) == [i \in 1..Len(zs) |-> MaskTrial(opv, zs[i])]

\* the caller's batch after vind returned: vind writes only to its own copy
CallerBatchAfter(opv, zs) == zs

\* the captured values after vind returned: vind assigns to none of them
CapturedAfter(opv, zs) == opv

\* vind(zs)
Vind(opv, zs) == [i \in 1..Len(zs) |-> VindOne(opv, zs[i])]

----------------------------------------------------------------------------
(* kernel: the eigenpair reconstruction, lines 140-174 *)

\* mf._numint.libxc.is_hybrid_xc(mf.xc)
IsHybridXC(xc) == xc \in {"b3lyp", "pbe0"}

\* e = [] ; xy = []   (esrc and xysrc record the solver index behind each
\* appended entry; they are not values of the program)
EmptyResult == [e |-> <<>>, xy |-> <<>>, esrc |-> <<>>, xysrc |-> <<>>]

\* eai = numpy.sqrt(eai), over the raw gaps of the current mean field
KernelEai(mfv) ==
    LET occa == OccIdx(mfv.mo_occ[1])
        occb == OccIdx(mfv.mo_occ[2])
        vira == VirIdx(mfv.mo_occ[1])
        virb == VirIdx(mfv.mo_occ[2])
        raw == GapVec(mfv.mo_energy[1], vira, occa)
               \o GapVec(mfv.mo_energy[2], virb, occb)
    IN  [k \in 1..Len(raw) |-> RSqrt(raw[k])]

\* the matrix block x[lo : lo + nr*nc].reshape(nr, nc) * norm
ScaledBlock(v, lo, nr, nc, scale) ==
    [r \in 1..nr |-> [c \in 1..nc |-> SMul(v[lo + (r - 1) * nc + c], scale)]]

\* norm = lib.norm(x)**2 - lib.norm(y)**2
XYNorm(x, y) == RSub(Norm2(x), Norm2(y))

\* the test that skips a reduced eigenvalue
SkipRoot(w2i) == RLtZero(w2i)

\* an acceptance test that lets a zero norm pass
AcceptNormNonNegative(norm) == ~IsNaN(norm) /\ norm.n >= 0

\* the test that accepts a reconstructed pair
AcceptNorm(norm) == RGtZero(norm)

\* a scale factor without the square root
NormScaleNoSqrt(norm) == Surd(RDiv(I(1), norm), I(1))

\* norm = 1/numpy.sqrt(norm)
NormScale(norm) == InvSqrt(norm)

\* an e.append(w) placed before the test of the norm
AppendEnergyEarly(acc, w, i, norm) ==
    [acc EXCEPT !.e = Append(@, w), !.esrc = Append(@, i)]

\* e.append(w), inside "if norm > 0"
AppendEnergy(acc, w, i, norm) ==
    IF AcceptNorm(norm)
    THEN [acc EXCEPT !.e = Append(@, w), !.esrc = Append(@, i)]
    ELSE acc

\* xy.append(((X_alpha, X_beta), (Y_alpha, Y_beta))), inside "if norm > 0"
AppendAmplitudes(acc, mfv, x, y, i, norm) ==
    IF AcceptNorm(norm)
    THEN LET scale == NormScale(norm)
             nocca == Len(OccIdx(mfv.mo_occ[1]))
             noccb == Len(OccIdx(mfv.mo_occ[2]))
             nvira == Len(VirIdx(mfv.mo_occ[1]))
             nvirb == Len(VirIdx(mfv.mo_occ[2]))
         IN  [acc EXCEPT
                !.xy = Append(@,
                    [xa |-> ScaledBlock(x, 0, nvira, nocca, scale),
                     xb |-> ScaledBlock(x, nocca * nvira, nvirb, noccb, scale),
                     ya |-> ScaledBlock(y, 0, nvira, nocca, scale),
                     yb |-> ScaledBlock(y, nocca * nvira, nvirb, noccb, scale)]),
                !.xysrc = Append(@, i)]
    ELSE acc

\* x = (zp + zm) * .5 and y = (zp - zm) * .5, from w, eai and z
ReconXY(eai, w, z) ==
    LET zp == VMul(eai, z)
        zm == VMul([k \in 1..Len(eai) |-> RDiv(w, eai[k])], z)
    IN  <<VScale(Q(1, 2), VAdd(zp, zm)), VScale(Q(1, 2), VSub(zp, zm))>>

\* one pass of the loop body for solver index i
ReconStep(mfv, eai, w2i, z, i, acc) ==
    IF SkipRoot(w2i) THEN acc
    ELSE Only({ Only({ AppendAmplitudes(AppendEnergy(acc, w, i, norm),
                                         mfv, xy[1], xy[2], i, norm)
                       : norm \in {XYNorm(xy[1], xy[2])} })
                : w \in {RSqrt(w2i)}, xy \in {ReconXY(eai, RSqrt(w2i), z)} })

\* for i, z in enumerate(x1): ...
RECURSIVE ReconLoop(_, _, _, _, _, _)
ReconLoop(mfv, eai, w2, x1, i, acc) ==
    IF i > Len(x1) THEN acc
    ELSE ReconLoop(mfv, eai, w2, x1, i + 1,
                   ReconStep(mfv, eai, I(w2[i]),
                             [k \in 1..Len(x1[i]) |-> I(x1[i][k])], i, acc))

\* a loop that goes on from the lists of the previous solve
ReconStartStale ==
    [e |-> td.e, xy |-> td.xy, esrc |-> last.esrc, xysrc |-> last.xysrc]

\* the lists the loop starts from
ReconStart == EmptyResult

Reconstruct(mfv, w2, x1) ==
    ReconLoop(mfv, KernelEai(mfv), w2, x1, 1, ReconStart)

----------------------------------------------------------------------------
(* kernel as a whole: lines 113-178 *)

\* the entry check: is_hybrid_xc(mf.xc) raises RuntimeError
KernelRejects(mfv) == IsHybridXC(mfv.xc)

\* nstates = self.nstates if the argument is None, else self.nstates = nstates
KernelNStates(tdv, nst) == IF nst = 0 THEN tdv.nstates ELSE nst

\* a kernel that gives up on a solver that did not converge
KernelResultConvergedOnly(mfv, conv, w2, x1) ==
    IF conv THEN Reconstruct(mfv, w2, x1) ELSE EmptyResult

\* what kernel stores and returns given the solver's report (conv, w2, x1):
\* the reconstruction, whatever conv says
KernelResult(mfv, conv, w2, x1) == Reconstruct(mfv, w2, x1)

\* an entry check placed after the nstates block
TdAtRaiseLate(tdv, nst) == [tdv EXCEPT !.nstates = KernelNStates(tdv, nst)]

\* the solver object when the entry check raises: nothing was assigned yet
TdAtRaise(tdv, nst) == tdv

----------------------------------------------------------------------------
(* Input domains *)

\* orbital energy levels whose pairwise differences are perfect squares
Levels == <<0, 9, 25>>

AscEnergy == [p \in 1..NMO |-> Levels[p]]

DegEnergy == [p \in 1..NMO |-> Levels[2]]

BinaryOcc == [1..NMO -> {0, 1}]

Aufbau(k) == [p \in 1..NMO |-> IF p <= k THEN 1 ELSE 0]

Identity == [p \in 1..NMO |-> [q \in 1..NMO |-> IF p = q THEN 1 ELSE 0]]

Reversal == [p \in 1..NMO |-> [q \in 1..NMO |-> IF p + q = NMO + 1 THEN 1 ELSE 0]]

SymUniform == [p \in 1..NMO |-> 0]

\* irrep ids 2 and 1 in turn: the product of two different ones is 2 ^ 1 = 3
SymAlternate == [p \in 1..NMO |-> 1 + (p % 2)]

NoSym == [set |-> FALSE, val |-> 0]

Irrep(k) == [set |-> TRUE, val |-> k]

\* vectors of length n: zero, a ramp, one with mixed signs, a unit vector
ZeroVec(n) == [k \in 1..n |-> 0]

RampVec(n) == [k \in 1..n |-> k]

MixedVec(n) == [k \in 1..n |-> IF k % 2 = 1 THEN -1 ELSE 2]

UnitVec(n) == [k \in 1..n |-> IF k = 1 THEN 1 ELSE 0]

\* trial vectors the solver may hand to vind
ZFamily(n) == {ZeroVec(n), RampVec(n), MixedVec(n), UnitVec(n)}

\* reduced eigenvalues the solver may report
W2Vals == {-1, 0, 1, 4}

\* (reduced eigenvalue, eigenvector) pairs the solver may report
ReconRoots(n) == {<<w, z>> : w \in W2Vals, z \in ZFamily(n)}

\* the pairs reported in the runs with several solves: a negative eigenvalue
\* and a positive one
DriverRoots(n) == {<<-1, RampVec(n)>>, <<4, MixedVec(n)>>}

RECURSIVE SeqsUpTo(_, _)
SeqsUpTo(S, n) ==
    IF n = 0 THEN {<<>>}
    ELSE LET shorter == SeqsUpTo(S, n - 1)
         IN  shorter \cup {Append(q, x) : q \in {t \in shorter : Len(t) = n - 1}, x \in S}

\* number of (virtual, occupied) pairs of both spins
NPairs(mfv) ==
    Len(VirIdx(mfv.mo_occ[1])) * Len(OccIdx(mfv.mo_occ[1]))
    + Len(VirIdx(mfv.mo_occ[2])) * Len(OccIdx(mfv.mo_occ[2]))

\* the last orbital occupied, the others empty (not an aufbau occupation)
TopOccupied == [p \in 1..NMO |-> IF p = NMO THEN 1 ELSE 0]

\* mean fields of the driver runs, without point-group symmetry: pairs in
\* both spins, no alpha virtuals, a non-aufbau alpha occupation (negative
\* gaps), degenerate beta levels (zero gaps); each with a pure and a hybrid
\* functional
MFDriver ==
    { [mo_occ |-> <<sh[1], Aufbau(1)>>,
       mo_energy |-> <<AscEnergy, sh[2]>>,
       mo_coeff |-> <<Identity, Identity>>,
       xc |-> x,
       symmetry |-> FALSE,
       orbsym |-> <<SymUniform, SymUniform>>]
      : sh \in { <<Aufbau(1), AscEnergy>>, <<Aufbau(NMO), AscEnergy>>,
                 <<TopOccupied, AscEnergy>>, <<Aufbau(1), DegEnergy>> },
        x \in {"lda,vwn", "b3lyp"} }

\* mean fields of the operator runs: alpha and beta orbitals carry different
\* irrep patterns, so a target irrep forbids the pairs of one spin only
MFOperator ==
    { [mo_occ |-> <<oa, ob>>,
       mo_energy |-> <<AscEnergy, eb>>,
       mo_coeff |-> <<Identity, cb>>,
       xc |-> "lda,vwn",
       symmetry |-> sy,
       orbsym |-> <<SymAlternate, SymUniform>>]
      : oa \in BinaryOcc, ob \in {Aufbau(1), TopOccupied},
        eb \in {AscEnergy, DegEnergy}, cb \in {Identity, Reversal},
        sy \in BOOLEAN }

NoCall ==
    [called |-> FALSE, raised |-> FALSE, mf |-> <<>>, solves |-> 0, conv |-> FALSE,
     w2 |-> <<>>, x1 |-> <<>>, esrc |-> <<>>, xysrc |-> <<>>,
     ret |-> <<>>]

NoTrace == [called |-> FALSE, zs |-> <<>>, out |-> <<>>]

InitWith(mfs, roots, syms) ==
    /\ mf \in mfs
    /\ td \in { [nstates |-> n, converged |-> FALSE, e |-> <<>>, xy |-> <<>>,
                 wfnsym |-> w] : n \in roots, w \in syms }
    /\ chk = [e |-> <<>>, xy |-> <<>>]
    /\ op = NoOp
    /\ buf = <<>>
    /\ tr = NoTrace
    /\ last = NoCall

----------------------------------------------------------------------------
(* The driver: kernel calls interleaved with changes of the mean field *)

Init == InitWith(MFDriver, 1..MaxRoots, {NoSym})

\* td.kernel(x0, nstates); nst = 0 stands for nstates=None.  x0 (given, or
\* made by init_guess) only goes to lib.davidson1, whose report is conv, w2,
\* x1: up to nstates roots.
Kernel(x0given, nst, conv, w2, x1) ==
    IF KernelRejects(mf)
    THEN /\ last' = [last EXCEPT !.raised = TRUE]
         /\ td' = TdAtRaise(td, nst)
         /\ UNCHANGED <<mf, chk, op, buf, tr>>
    ELSE \E res \in {KernelResult(mf, conv, w2, x1)} :
             /\ td' = [td EXCEPT !.nstates = KernelNStates(td, nst),
                                 !.converged = conv,
                                 !.e = res.e,
                                 !.xy = res.xy]
             /\ op' = GetVind(td, mf)
             /\ chk' = [e |-> res.e, xy |-> res.xy]
             /\ last' = [called |-> TRUE, raised |-> FALSE, mf |-> mf,
                         solves |-> IF last.solves < 2 THEN last.solves + 1 ELSE 2,
                         conv |-> conv, w2 |-> w2, x1 |-> x1,
                         esrc |-> res.esrc, xysrc |-> res.xysrc,
                         ret |-> <<res.e, res.xy>>]
             /\ UNCHANGED <<mf, buf, tr>>

KernelCall ==
    \E x0given \in BOOLEAN, nst \in 0..MaxRoots, conv \in BOOLEAN :
      \E n \in 0..KernelNStates(td, nst) :
        \E roots \in [1..n -> DriverRoots(NPairs(mf))] :
            Kernel(x0given, nst, conv,
                   [i \in 1..n |-> roots[i][1]], [i \in 1..n |-> roots[i][2]])

\* the owner of the mean field replaces its state (a new SCF, new occupations)
SetMeanField ==
    /\ mf' \in MFDriver \ {mf}
    /\ UNCHANGED <<td, chk, op, buf, tr, last>>

Next == KernelCall \/ SetMeanField

Spec == Init /\ [][Next]_vars

----------------------------------------------------------------------------
(* One solve on a fresh solver object, over all the reports of the solver *)

KernelOnce ==
    /\ ~last.called
    /\ ~last.raised
    /\ \E x0given \in BOOLEAN, nst \in 0..MaxRoots, conv \in BOOLEAN :
         \E n \in 0..KernelNStates(td, nst) :
           \E roots \in [1..n -> ReconRoots(NPairs(mf))] :
               Kernel(x0given, nst, conv,
                      [i \in 1..n |-> roots[i][1]], [i \in 1..n |-> roots[i][2]])

NextRecon == KernelOnce

SpecRecon == Init /\ [][NextRecon]_vars

----------------------------------------------------------------------------
(* The operator during one solve: get_vind, then the solver calling vind *)

InitOp ==
    /\ InitWith(MFOperator, {MaxRoots}, {NoSym, Irrep(0), Irrep(3)})
    /\ mf.symmetry \/ ~td.wfnsym.set

\* vind, hdiag = self.get_vind(self._scf)
BuildOperator ==
    /\ ~op.built
    /\ op' = GetVind(td, mf)
    /\ UNCHANGED <<mf, td, chk, buf, tr, last>>

\* the solver holds the batch zs and calls vind(zs)
InvokeOperator(zs) ==
    /\ op.built
    /\ tr' = [called |-> TRUE, zs |-> zs, out |-> Vind(op, zs)]
    /\ buf' = CallerBatchAfter(op, zs)
    /\ op' = CapturedAfter(op, zs)
    /\ UNCHANGED <<mf, td, chk, last>>

InvokeAny ==
    \E zs \in SeqsUpTo({[k \in 1..Len(z) |-> I(z[k])] : z \in ZFamily(NPairs(mf))},
                       MaxBatch) \ {<<>>} :
        InvokeOperator(zs)

NextOp == BuildOperator \/ InvokeAny

SpecOp == InitOp /\ [][NextOp]_vars

----------------------------------------------------------------------------
(* Vocabulary of the properties *)

OccSet(occ) == {p \in 1..Len(occ) : occ[p] > 0}

VirSet(occ) == {p \in 1..Len(occ) : occ[p] = 0}

\* seq lists the elements of S in increasing order
ListsAscending(seq, S) ==
    /\ Len(seq) = Cardinality(S)
    /\ {seq[k] : k \in 1..Len(seq)} = S
    /\ \A k \in 1..(Len(seq) - 1) : seq[k] < seq[k + 1]

\* every virtual orbital lies above every occupied one of its spin
GapsPositive(mfv) ==
    \A s \in 1..2 : \A a \in VirSet(mfv.mo_occ[s]), i \in OccSet(mfv.mo_occ[s]) :
        mfv.mo_energy[s][a] > mfv.mo_energy[s][i]

\* the solver's root (w2i, z) gives a pair of positive norm
Acceptable(mfv, w2i, z) ==
    /\ w2i > 0
    /\ \E k \in 1..Len(z) : z[k] # 0
    /\ GapsPositive(mfv)

AcceptedIndices(mfv, w2, x1) ==
    {i \in 1..Len(w2) : Acceptable(mfv, w2[i], x1[i])}

\* sum of the squares of the entries of a matrix of surds
SumSq(m) == SumSeq([k \in 1..Len(Flatten(m)) |-> SSq(Flatten(m)[k])])

\* rows and columns of a matrix block of nr rows
ShapeOf(m) == <<Len(m), {Len(m[r]) : r \in 1..Len(m)}>>

ShapesOf(xy) ==
    [k \in 1..Len(xy) |->
        <<ShapeOf(xy[k].xa), ShapeOf(xy[k].xb), ShapeOf(xy[k].ya), ShapeOf(xy[k].yb)>>]

ExpectedShape(mfv, s) ==
    <<Cardinality(VirSet(mfv.mo_occ[s])),
      IF VirSet(mfv.mo_occ[s]) = {} THEN {} ELSE {Cardinality(OccSet(mfv.mo_occ[s]))}>>

----------------------------------------------------------------------------
(* C1 *)

\* C1: a kernel call on a hybrid mean field raises and leaves the solver
\* object (nstates, converged, e, xy), the closure of get_vind and the
\* checkpoint as they were, whatever x0 and nstates were passed: every step
\* taken while the mean field is hybrid and stays in place changes none of
\* them and ends as a raised call.
C1_HybridRejected ==
    [][ (IsHybridXC(mf.xc) /\ mf' = mf)
        => (last'.raised /\ td' = td /\ op' = op /\ chk' = chk) ]_vars

\* a call was rejected on a solver object that holds the results of an
\* earlier solve
C1_Witness == last.raised /\ last.called /\ td.e # <<>> /\ IsHybridXC(mf.xc)

----------------------------------------------------------------------------
(* C2 *)

\* C2: every stored eigenpair satisfies
\* sum(X_alpha^2) + sum(X_beta^2) - sum(Y_alpha^2) - sum(Y_beta^2) = 1.
C2_Normalized ==
    \A k \in 1..Len(td.xy) :
        RSub(RAdd(SumSq(td.xy[k].xa), SumSq(td.xy[k].xb)),
             RAdd(SumSq(td.xy[k].ya), SumSq(td.xy[k].yb))) = I(1)

\* a stored pair with amplitudes in both spins that was rescaled by an
\* irrational factor
C2_Witness ==
    \E k \in 1..Len(td.xy) :
        /\ td.xy[k].xa # <<>> /\ td.xy[k].xb # <<>>
        /\ td.xy[k].xa[1][1].r # I(1)
        /\ td.xy[k].ya[1][1].c # I(0)
        /\ td.xy[k].xb[1][1].c # I(0)

----------------------------------------------------------------------------
(* C3 *)

\* C3: no stored eigenpair comes from a solver index with w2 < 0, and the
\* number of stored eigenpairs is at most the number of returned
\* eigenvalues.
C3_NegativeDiscarded ==
    last.called =>
        /\ Len(td.e) <= Len(last.w2)
        /\ Len(td.xy) <= Len(last.w2)
        /\ \A k \in 1..Len(last.esrc) : last.w2[last.esrc[k]] >= 0
        /\ \A k \in 1..Len(last.xysrc) : last.w2[last.xysrc[k]] >= 0

\* the solver reported a negative eigenvalue beside one that was stored
C3_Witness ==
    /\ last.called
    /\ Len(td.e) = 1
    /\ Len(last.w2) = 2
    /\ \E i \in 1..Len(last.w2) : last.w2[i] < 0

----------------------------------------------------------------------------
(* C4 *)

\* C4: a root with w2 <= 0 (zero included) or with norm <= 0 leaves nothing
\* in the result, and every stored energy is strictly positive.
C4_NonPositiveDiscarded ==
    last.called =>
        /\ \A k \in 1..Len(td.e) : IsFin(td.e[k]) /\ td.e[k].n > 0
        /\ \A i \in 1..Len(last.w2) :
              LET z == [k \in 1..Len(last.x1[i]) |-> I(last.x1[i][k])]
                  xy == ReconXY(KernelEai(last.mf), RSqrt(I(last.w2[i])), z)
                  kept == \/ \E k \in 1..Len(last.esrc) : last.esrc[k] = i
                          \/ \E k \in 1..Len(last.xysrc) : last.xysrc[k] = i
              IN  (last.w2[i] <= 0 \/ ~RGtZero(XYNorm(xy[1], xy[2]))) => ~kept

\* a zero eigenvalue with a non-zero vector and a positive eigenvalue with
\* a zero vector were both left out
C4_Witness ==
    /\ last.called
    /\ GapsPositive(last.mf)
    /\ Len(last.w2) = 2
    /\ last.w2[1] = 0 /\ \E k \in 1..Len(last.x1[1]) : last.x1[1][k] # 0
    /\ last.w2[2] > 0 /\ \A k \in 1..Len(last.x1[2]) : last.x1[2][k] = 0
    /\ Len(last.x1[2]) > 0
    /\ td.e = <<>>

----------------------------------------------------------------------------
(* C5 *)

\* position j of the k-th stored pair against the solver vector z behind it:
\* (X + Y)[j] is scale * sqrt(gap[j]) * z[j] with scale^2 = 1 / (w * |z|^2)
FromSolverVector(xk, yk, w, gaps, z) ==
    LET n2 == SumSeq([j \in 1..Len(z) |-> I(z[j] * z[j])])
    IN  /\ Len(xk) = Len(z) /\ Len(yk) = Len(z)
        /\ \A j \in 1..Len(z) :
              /\ xk[j].r = yk[j].r
              /\ RMul(RMul(RMul(RAdd(xk[j].c, yk[j].c), RAdd(xk[j].c, yk[j].c)),
                           xk[j].r), RMul(w, n2))
                 = RMul(gaps[j], I(z[j] * z[j]))
              /\ Sgn(RAdd(xk[j].c, yk[j].c).n) = Sgn(z[j])

\* C5: e and xy are parallel sequences, the k-th energy and the k-th (X, Y)
\* pair come from the same solver index, the accepted indices increase, none
\* that gives a pair of positive norm is missing, and ascending w2 give
\* ascending energies.
C5_OrderPreserved ==
    last.called =>
        /\ Len(td.e) = Len(td.xy)
        /\ last.esrc = last.xysrc
        /\ Len(last.esrc) = Len(td.e)
        /\ \A k \in 1..(Len(last.esrc) - 1) : last.esrc[k] < last.esrc[k + 1]
        /\ {last.esrc[k] : k \in 1..Len(last.esrc)}
           = AcceptedIndices(last.mf, last.w2, last.x1)
        /\ \A k \in 1..Len(td.e) :
              /\ RMul(td.e[k], td.e[k]) = I(last.w2[last.esrc[k]])
              /\ FromSolverVector(
                    Flatten(td.xy[k].xa) \o Flatten(td.xy[k].xb),
                    Flatten(td.xy[k].ya) \o Flatten(td.xy[k].yb),
                    td.e[k],
                    GapVec(last.mf.mo_energy[1], VirIdx(last.mf.mo_occ[1]),
                           OccIdx(last.mf.mo_occ[1]))
                    \o GapVec(last.mf.mo_energy[2], VirIdx(last.mf.mo_occ[2]),
                              OccIdx(last.mf.mo_occ[2])),
                    last.x1[last.xysrc[k]])
        /\ (\A i \in 1..(Len(last.w2) - 1) : last.w2[i] <= last.w2[i + 1])
           => \A k \in 1..(Len(td.e) - 1) :
                 RSub(td.e[k + 1], td.e[k]).n >= 0

\* the first root was skipped, so the second one is stored at position 1
C5_Witness ==
    /\ last.called
    /\ Len(last.w2) = 2
    /\ last.esrc = <<2>>
    /\ Len(td.xy) = 1
    /\ last.x1[1] # last.x1[2]

----------------------------------------------------------------------------
(* C6 *)

\* C6: with the symmetry mask active, in every invocation of vind the trial
\* vector that is used, the rescaled vector dai * z and the diagonal term
\* edai * z are zero at every forbidden position.
C6_MaskedPositionsZero ==
    (tr.called /\ op.masked) =>
        \A i \in 1..Len(tr.out) : \A k \in 1..Len(op.sym_forbid) :
            op.sym_forbid[k] =>
                /\ tr.out[i].zin[k] = I(0)
                /\ tr.out[i].z[k] = I(0)
                /\ tr.out[i].diag[k] = I(0)

\* the solver handed over a vector that is non-zero at a forbidden position
C6_Witness ==
    /\ tr.called /\ op.masked
    /\ \E i \in 1..Len(tr.zs) : \E k \in 1..Len(op.sym_forbid) :
          op.sym_forbid[k] /\ tr.zs[i][k] # I(0)

----------------------------------------------------------------------------
(* C7 *)

\* C7: an invocation of vind leaves the caller's batch and the captured
\* values as they were, so its result is that of a newly built closure on
\* the same vectors, and equal vectors of a batch get equal results.
C7_NoSideEffects ==
    tr.called =>
        /\ buf = tr.zs
        /\ op = VindClosure(td, mf)
        /\ tr.out = Vind(VindClosure(td, mf), tr.zs)
        /\ \A i, j \in 1..Len(tr.zs) :
              tr.zs[i] = tr.zs[j] => tr.out[i].hx = tr.out[j].hx

\* vind worked on a masked copy that differs from the caller's batch
C7_Witness ==
    /\ tr.called /\ op.masked
    /\ \E i \in 1..Len(tr.zs) : tr.out[i].zin # tr.zs[i]
    /\ buf = tr.zs

----------------------------------------------------------------------------
(* C8 *)

\* the closure and the results agree with the mean field of the latest solve
C8_Fresh ==
    last.called =>
        /\ \A s \in 1..2 :
              /\ ListsAscending(op.occidx[s], OccSet(last.mf.mo_occ[s]))
              /\ ListsAscending(op.viridx[s], VirSet(last.mf.mo_occ[s]))
              /\ op.nocc[s] = Cardinality(OccSet(last.mf.mo_occ[s]))
              /\ op.nvir[s] = Cardinality(VirSet(last.mf.mo_occ[s]))
        /\ LET pairs == [s \in 1..2 |->
                           Flatten([a \in 1..Len(op.viridx[s]) |->
                               [i \in 1..Len(op.occidx[s]) |->
                                   <<s, op.viridx[s][a], op.occidx[s][i]>>]])]
               all == pairs[1] \o pairs[2]
           IN  /\ Len(op.e_ai) = Len(all)
               /\ Len(op.hdiag) = Len(all)
               /\ \A k \in 1..Len(all) :
                     /\ op.e_ai[k] = I(last.mf.mo_energy[all[k][1]][all[k][2]]
                                       - last.mf.mo_energy[all[k][1]][all[k][3]])
                     /\ op.hdiag[k] = RMul(op.e_ai[k], op.e_ai[k])
        /\ Len(td.e) = Cardinality(AcceptedIndices(last.mf, last.w2, last.x1))
        /\ Len(td.xy) = Len(td.e)
        /\ \A k \in 1..Len(td.xy) :
              /\ ShapeOf(td.xy[k].xa) = ExpectedShape(last.mf, 1)
              /\ ShapeOf(td.xy[k].ya) = ExpectedShape(last.mf, 1)
              /\ ShapeOf(td.xy[k].xb) = ExpectedShape(last.mf, 2)
              /\ ShapeOf(td.xy[k].yb) = ExpectedShape(last.mf, 2)

\* a solve on the mean field and with the solver report of the solve before
\* it gives the same energies and the same shapes
C8_Repeatable ==
    (last.called /\ last'.called /\ last'.mf = last.mf
     /\ last'.w2 = last.w2 /\ last'.x1 = last.x1)
    => (td'.e = td.e /\ ShapesOf(td'.xy) = ShapesOf(td.xy))

\* C8: every solve derives the excitation space and the diagonal basis from
\* the mean field current at the call and replaces e and xy; two solves on
\* the same mean field and solver report give the same energies and shapes.
C8_RebuiltEachSolve == []C8_Fresh /\ [][C8_Repeatable]_vars

\* a second solve, on a mean field without alpha virtuals, that stored a
\* state whose alpha blocks are empty
C8_Witness ==
    /\ last.solves = 2
    /\ td.e # <<>>
    /\ last.mf.mo_occ[1] = Aufbau(NMO)
    /\ op.nvir[1] = 0

----------------------------------------------------------------------------
(* C9 *)

\* C9: when the solver reports non-convergence, kernel records the flag,
\* reconstructs the roots it was given, stores them, writes them to the
\* checkpoint and returns them.
C9_NonConvergedReturned ==
    (last.called /\ ~last.conv) =>
        /\ td.converged = FALSE
        /\ Len(td.e) = Cardinality(AcceptedIndices(last.mf, last.w2, last.x1))
        /\ Len(td.xy) = Len(td.e)
        /\ chk.e = td.e /\ chk.xy = td.xy
        /\ last.ret = <<td.e, td.xy>>

\* a solve that did not converge and left an eigenpair
C9_Witness ==
    last.called /\ ~last.raised /\ ~last.conv /\ td.e # <<>> /\ chk.e # <<>>

----------------------------------------------------------------------------
(* C10 *)

\* C10: for every binary occupation pattern, the rows and columns of the
\* block that vind back-transforms are the virtual and occupied orbitals of
\* the pairs the transition density was built from, position by position.
C10_BlockMatchesPairs ==
    tr.called => \A s \in 1..2 : BackPairs(op, s) = DensityPairs(op, s)

====
